---- MODULE Spec2Model ----
(***************************************************************************)
(* The Amazon (Rapid API) sentiment pipeline: rapid_api collects reviews,  *)
(* builds and saves a frame, calls rapid_sentiment_spike on it and sends   *)
(* one notification.  rapid_sentiment_spike cleans the frame, aggregates   *)
(* a weekly sentiment per category, computes rolling statistics, detects   *)
(* alerts and keeps those of the last week.                                *)
(*                                                                         *)
(* Numbers: a sentiment value v is held as the integer v * Unit, so every  *)
(* mean of up to 6 scores, every rolling mean of two of them and the       *)
(* thresholds are exact.  Dates are day numbers, day 0 being a Monday.     *)
(***************************************************************************)
EXTENDS Integers, Sequences, FiniteSets, TLC

\* ---------------------------------------------------------------- bounds
MaxReviews == 4
MaxWeek == 3

\* ------------------------------------------------------------- constants
WEEK_WINDOW == 2
RecencyDays == 7
DaysPerWeek == 7

Unit == 6 * 1000 * 1000
Micro == Unit \div (1000 * 1000)
SPIKE_THRESHOLD == (3 * Unit) \div 10
TREND_SHIFT_THRESHOLD == (3 * Unit) \div 10

\* NaN / NaT / None of a numeric column
NaN == 0 - 100 * Unit
NoRating == 0 - 1
NoCategory == "None"

IsNa(x) == x = NaN

\* ------------------------------------------------------------ categories
\* two of the keys of CATEGORY_KEYWORDS, in the order the dict lists them
CATEGORY_KEYWORDS == <<"Home_Appliances", "Computers_Tablets">>

\* the order in which pandas sorts these strings
CategoryOrder == <<"Computers_Tablets", "Home_Appliances">>

CatRank(c) == CHOOSE i \in DOMAIN CategoryOrder : CategoryOrder[i] = c

CatPos(c) == CHOOSE i \in DOMAIN CATEGORY_KEYWORDS : CATEGORY_KEYWORDS[i] = c

\* ------------------------------------------------------------- the input
\* a raw review_date as the API returns it: a date string, a string that is
\* no date, or nothing
DateStr(d) == [tag |-> "str", day |-> d]
JunkStr == [tag |-> "junk", day |-> 0]
NoDate == [tag |-> "none", day |-> 0]

Ratings == {1, 3, 5}

\* the day of week w on which a review with rating r was written: a Monday,
\* a Thursday or a Sunday
ReviewDay(w, r) == DaysPerWeek * w + (3 * (r - 1)) \div 2

\* the reviews a fetch may return
Reviews ==
    {[category |-> c, rating |-> r, review_date |-> DateStr(ReviewDay(w, r))] :
        c \in {CATEGORY_KEYWORDS[i] : i \in DOMAIN CATEGORY_KEYWORDS},
        w \in 0..MaxWeek, r \in Ratings}
    \cup {[category |-> c, rating |-> 5, review_date |-> x] :
        c \in {CATEGORY_KEYWORDS[i] : i \in DOMAIN CATEGORY_KEYWORDS},
        x \in {JunkStr, NoDate}}
    \cup {[category |-> c, rating |-> NoRating, review_date |-> DateStr(0)] :
        c \in {CATEGORY_KEYWORDS[i] : i \in DOMAIN CATEGORY_KEYWORDS}}

\* the place of a review in the order of collection: categories in the order
\* of CATEGORY_KEYWORDS; inside a category one representative order
DateKey(x) == IF x.tag = "str" THEN 10 + x.day ELSE IF x.tag = "junk" THEN 1 ELSE 2

FetchOrder(rec) ==
    CatPos(rec.category) * 100000 + DateKey(rec.review_date) * 100 + (rec.rating + 1)

VARIABLES
    pc,                 \* where rapid_api is
    notification_mode,  \* its parameter
    all_reviews,        \* the list the collection loop appends to
    df,                 \* the frame rapid_api holds
    csv,                \* what to_csv wrote
    raised,             \* the step that raised, "none" if none
    weekly_cat,         \* the engine's weekly table
    alerts,             \* the engine's alert list before the recency filter
    result_df,          \* what the engine returned
    printed,            \* what the engine printed
    sent,               \* the notifications handed to the dispatch
    idx,                \* classifier sweep: rows classified so far
    row,                \* classifier sweep: the row of this iteration
    emitted,            \* classifier sweep: the alerts this iteration appended
    seen                \* classifier sweep: the alert counts met so far

vars == <<pc, notification_mode, all_reviews, df, csv, raised, weekly_cat, alerts,
          result_df, printed, sent, idx, row, emitted, seen>>

pipeVars == <<pc, notification_mode, all_reviews, df, csv, raised, weekly_cat, alerts,
              result_df, printed, sent>>

sweepVars == <<idx, row, emitted, seen>>

\* ------------------------------------------------------- clean and prepare
ToDatetime(x) ==
    IF x.tag \in {"str", "ts"} THEN [tag |-> "ts", day |-> x.day]
    ELSE [tag |-> "NaT", day |-> 0]

ParseDates(frame) ==
    [i \in DOMAIN frame |-> [frame[i] EXCEPT !.review_date = ToDatetime(@)]]

Eligible(rec) ==
    /\ rec.review_date.tag = "ts"
    /\ rec.rating # NoRating
    /\ rec.category # NoCategory

DropNa(frame) == SelectSeq(frame, Eligible)

RECURSIVE InsertByDate(_, _)
InsertByDate(s, rec) ==
    IF s = <<>> THEN <<rec>>
    ELSE IF s[Len(s)].review_date.day <= rec.review_date.day THEN Append(s, rec)
    ELSE Append(InsertByDate(SubSeq(s, 1, Len(s) - 1), rec), s[Len(s)])

RECURSIVE SortValuesDate(_)
SortValuesDate(frame) ==
    IF frame = <<>> THEN <<>>
    ELSE InsertByDate(SortValuesDate(SubSeq(frame, 1, Len(frame) - 1)), frame[Len(frame)])

\* ------------------------------------------------------------- sentiment
rating_to_sentiment(r) ==
    IF r >= 4 THEN "positive" ELSE IF r = 3 THEN "neutral" ELSE "negative"

LABEL_MAP(label) ==
    IF label = "positive" THEN 1 ELSE IF label = "neutral" THEN 0 ELSE 0 - 1

SentimentScore(rec) == LABEL_MAP(rating_to_sentiment(rec.rating))

\* ------------------------------------------------------ weekly aggregation
\* the Monday that starts the week (period "W") of a day
WeekStart(d) == d - (d % DaysPerWeek)

GroupKey(rec) == <<rec.category, WeekStart(rec.review_date.day)>>

KeyLess(a, b) ==
    \/ CatRank(a[1]) < CatRank(b[1])
    \/ a[1] = b[1] /\ a[2] < b[2]

RECURSIVE SortKeys(_)
SortKeys(S) ==
    IF S = {} THEN <<>>
    ELSE LET m == CHOOSE x \in S : \A y \in S \ {x} : KeyLess(x, y)
         IN <<m>> \o SortKeys(S \ {m})

RECURSIVE SumScores(_, _)
SumScores(frame, I) ==
    IF I = {} THEN 0
    ELSE LET i == CHOOSE x \in I : TRUE
         IN SentimentScore(frame[i]) + SumScores(frame, I \ {i})

GroupMean(frame, key) ==
    LET I == {i \in DOMAIN frame : GroupKey(frame[i]) = key}
    IN (SumScores(frame, I) * Unit) \div Cardinality(I)

WeeklyAggregate(frame) ==
    LET keys == SortKeys({GroupKey(frame[i]) : i \in DOMAIN frame})
    IN [k \in DOMAIN keys |->
          [category |-> keys[k][1],
           review_date |-> keys[k][2],
           weekly_sentiment |-> GroupMean(frame, keys[k]),
           rolling_avg |-> NaN,
           prev_rolling_avg |-> NaN,
           delta |-> NaN,
           prev_delta |-> NaN]]

\* ------------------------------------------------------ rolling statistics
\* the row before row i in the table, whatever its category
PrevRow(t, i) == i - 1

\* the row before row i among the rows of its category (0: none): the row
\* that groupby(category) puts before it
PrevInGroup(t, i) ==
    LET J == {j \in 1..(i - 1) : t[j].category = t[i].category}
    IN IF J = {} THEN 0 ELSE CHOOSE j \in J : \A k \in J : k <= j

\* the last k weekly values of row i's category, up to and including row i
RECURSIVE Window(_, _, _)
Window(t, i, k) ==
    IF k = 0 \/ i = 0 THEN <<>>
    ELSE Append(Window(t, PrevInGroup(t, i), k - 1), t[i].weekly_sentiment)

RECURSIVE SumSeq(_)
SumSeq(s) == IF s = <<>> THEN 0 ELSE s[1] + SumSeq(Tail(s))

\* the mean of full windows only
RollingMeanFullWindow(t, i) ==
    LET w == Window(t, i, WEEK_WINDOW)
    IN IF Len(w) < WEEK_WINDOW THEN NaN ELSE SumSeq(w) \div Len(w)

\* rolling(WEEK_WINDOW, min_periods=1).mean()
RollingMean(t, i) ==
    LET w == Window(t, i, WEEK_WINDOW) IN SumSeq(w) \div Len(w)

Sub(a, b) == IF IsNa(a) \/ IsNa(b) THEN NaN ELSE a - b

WithRolling(t) ==
    [i \in DOMAIN t |-> [t[i] EXCEPT !.rolling_avg = RollingMean(t, i)]]

WithPrevRolling(t) ==
    [i \in DOMAIN t |->
        [t[i] EXCEPT !.prev_rolling_avg =
            IF PrevInGroup(t, i) = 0 THEN NaN ELSE t[PrevInGroup(t, i)].rolling_avg]]

WithDelta(t) ==
    [i \in DOMAIN t |->
        [t[i] EXCEPT !.delta = Sub(t[i].rolling_avg, t[i].prev_rolling_avg)]]

WithPrevDelta(t) ==
    [i \in DOMAIN t |->
        [t[i] EXCEPT !.prev_delta =
            IF PrevInGroup(t, i) = 0 THEN NaN ELSE t[PrevInGroup(t, i)].delta]]

RollingStats(t) == WithPrevDelta(WithDelta(WithPrevRolling(WithRolling(t))))

\* ---------------------------------------------------------- detect alerts
Abs(x) == IF x < 0 THEN 0 - x ELSE x

Sign(x) == IF x < 0 THEN 0 - 1 ELSE IF x > 0 THEN 1 ELSE 0

\* n / d rounded to the nearest integer, a tie going to the even one (d > 0)
RoundHalfEven(n, d) ==
    LET q == n \div d
        r == n - q * d
    IN IF 2 * r < d THEN q
       ELSE IF 2 * r > d THEN q + 1
       ELSE IF q % 2 = 0 THEN q ELSE q + 1

\* round(delta, 3), in thousandths
Round3(delta) == RoundHalfEven(delta, Unit \div 1000)

NegativeSpikeStrict(delta) == delta < 0 - SPIKE_THRESHOLD

NegativeSpike(delta) == delta <= 0 - SPIKE_THRESHOLD

PositiveSpikeSignSlip(delta) == delta >= 0 - SPIKE_THRESHOLD

PositiveSpike(delta) == delta >= SPIKE_THRESHOLD

TrendShiftAnyMagnitude(delta, prev_delta) ==
    /\ ~IsNa(prev_delta)
    /\ Sign(delta) * Sign(prev_delta) < 0

\* the sign of delta * prev_delta is the product of the signs
TrendShift(delta, prev_delta) ==
    /\ ~IsNa(prev_delta)
    /\ Sign(delta) * Sign(prev_delta) < 0
    /\ Abs(delta) >= TREND_SHIFT_THRESHOLD

Alert(r, type) ==
    [date |-> r.review_date, category |-> r.category, type |-> type,
     change |-> Round3(r.delta)]

\* one iteration of the loop over the rows of weekly_cat
ClassifyRow(r) ==
    IF IsNa(r.delta) THEN <<>>
    ELSE (IF NegativeSpike(r.delta) THEN <<Alert(r, "NEGATIVE SPIKE")>> ELSE <<>>)
      \o (IF PositiveSpike(r.delta) THEN <<Alert(r, "POSITIVE SPIKE")>> ELSE <<>>)
      \o (IF TrendShift(r.delta, r.prev_delta) THEN <<Alert(r, "TREND SHIFT")>> ELSE <<>>)

RECURSIVE DetectAlerts(_)
DetectAlerts(t) ==
    IF t = <<>> THEN <<>>
    ELSE DetectAlerts(SubSeq(t, 1, Len(t) - 1)) \o ClassifyRow(t[Len(t)])

\* ------------------------------------------------------ filter last week
LatestDate(a) ==
    CHOOSE d \in {a[i].date : i \in DOMAIN a} : \A j \in DOMAIN a : a[j].date <= d

RecencyFilterPerCategory(a) ==
    LET own(x) == SelectSeq(a, LAMBDA y : y.category = x.category)
    IN SelectSeq(a, LAMBDA x : x.date >= LatestDate(own(x)) - RecencyDays)

RecencyFilter(a) ==
    IF a = <<>> THEN a
    ELSE LET last_week_start == LatestDate(a) - RecencyDays
         IN SelectSeq(a, LAMBDA x : x.date >= last_week_start)

\* ----------------------------------------------------------------- output
AlertLE(x, y) ==
    \/ x.date < y.date
    \/ x.date = y.date /\ CatRank(x.category) <= CatRank(y.category)

RECURSIVE InsertAlert(_, _)
InsertAlert(s, x) ==
    IF s = <<>> THEN <<x>>
    ELSE IF AlertLE(s[Len(s)], x) THEN Append(s, x)
    ELSE Append(InsertAlert(SubSeq(s, 1, Len(s) - 1), x), s[Len(s)])

\* sort_values(["date", "category"])
RECURSIVE SortAlerts(_)
SortAlerts(a) ==
    IF a = <<>> THEN <<>>
    ELSE InsertAlert(SortAlerts(SubSeq(a, 1, Len(a) - 1)), a[Len(a)])

\* ------------------------------------------------- rapid_sentiment_spike
Cleaned(frame) == SortValuesDate(DropNa(ParseDates(frame)))

WeeklyTable(frame) == RollingStats(WeeklyAggregate(Cleaned(frame)))

ClassifiedAlerts(frame) == DetectAlerts(WeeklyTable(frame))

ReturnedAlerts(frame) == RecencyFilter(ClassifiedAlerts(frame))

\* -------------------------------------------------------------- rapid_api
\* drop_duplicates(subset=["asin", "review_text"]): a review fetched twice
\* is the same (asin, review_text); the first one is kept
RECURSIVE DropDuplicates(_)
DropDuplicates(s) ==
    IF s = <<>> THEN <<>>
    ELSE LET h == DropDuplicates(SubSeq(s, 1, Len(s) - 1))
         IN IF \E i \in DOMAIN h : h[i] = s[Len(s)] THEN h ELSE Append(h, s[Len(s)])

StatusMessageSwapped(result) ==
    IF result = <<>> THEN "spikes_detected" ELSE "no_spikes"

StatusMessage(result) ==
    IF result = <<>> THEN "no_spikes" ELSE "spikes_detected"

NoRow ==
    [category |-> NoCategory, review_date |-> 0, weekly_sentiment |-> NaN,
     rolling_avg |-> NaN, prev_rolling_avg |-> NaN, delta |-> NaN, prev_delta |-> NaN]

Init ==
    /\ pc = "collect"
    /\ notification_mode \in {"email", "slack"}
    /\ all_reviews = <<>>
    /\ df = <<>>
    /\ csv = [written |-> FALSE, rows |-> <<>>]
    /\ raised = "none"
    /\ weekly_cat = <<>>
    /\ alerts = <<>>
    /\ result_df = <<>>
    /\ printed = <<>>
    /\ sent = <<>>
    /\ idx = 0
    /\ row = NoRow
    /\ emitted = <<>>
    /\ seen = {}

\* one review of one fetch is appended to all_reviews
Collect ==
    /\ pc = "collect"
    /\ Len(all_reviews) < MaxReviews
    /\ \E rec \in Reviews :
        /\ IF all_reviews = <<>> THEN TRUE
           ELSE FetchOrder(all_reviews[Len(all_reviews)]) <= FetchOrder(rec)
        /\ all_reviews' = Append(all_reviews, rec)
    /\ UNCHANGED <<pc, notification_mode, df, csv, raised, weekly_cat, alerts,
                   result_df, printed, sent>>
    /\ UNCHANGED sweepVars

\* the frame is built, its duplicates dropped, and it is written to the csv
\* file, which raises when the file cannot be written
BuildFrame ==
    /\ pc = "collect"
    /\ df' = DropDuplicates(all_reviews)
    /\ \E written \in BOOLEAN :
        IF written
        THEN /\ csv' = [written |-> TRUE, rows |-> df']
             /\ pc' = "detect"
             /\ raised' = raised
        ELSE /\ csv' = csv
             /\ pc' = "except"
             /\ raised' = "to_csv"
    /\ UNCHANGED <<notification_mode, all_reviews, weekly_cat, alerts, result_df,
                   printed, sent>>
    /\ UNCHANGED sweepVars

\* result_df = rapid_sentiment_spike(df).  A frame built from no review has
\* no column, and reading its review_date column raises KeyError
SpikeDetection ==
    /\ pc = "detect"
    /\ IF df = <<>>
       THEN /\ raised' = "rapid_sentiment_spike"
            /\ pc' = "except"
            /\ UNCHANGED <<df, weekly_cat, alerts, result_df, printed>>
       ELSE /\ df' = ParseDates(df)
            /\ weekly_cat' = WeeklyTable(df)
            /\ alerts' = DetectAlerts(weekly_cat')
            /\ result_df' = RecencyFilter(alerts')
            /\ printed' = SortAlerts(result_df')
            /\ pc' = "notify"
            /\ raised' = raised
    /\ UNCHANGED <<notification_mode, all_reviews, csv, sent>>
    /\ UNCHANGED sweepVars

Notify ==
    /\ pc = "notify"
    /\ IF notification_mode = "email"
       THEN sent' = Append(sent, [via |-> "email", text |-> StatusMessage(result_df),
                                  attached |-> result_df # <<>>])
       ELSE IF notification_mode = "slack"
       THEN sent' = Append(sent, [via |-> "slack", text |-> StatusMessage(result_df),
                                  attached |-> FALSE])
       ELSE sent' = sent
    /\ pc' = "done"
    /\ UNCHANGED <<notification_mode, all_reviews, df, csv, raised, weekly_cat, alerts,
                   result_df, printed>>
    /\ UNCHANGED sweepVars

\* the except branch
NotifyFailure ==
    /\ pc = "except"
    /\ sent' = Append(sent, [via |-> IF notification_mode = "email" THEN "email" ELSE "slack",
                             text |-> "failed", attached |-> FALSE])
    /\ pc' = "done"
    /\ UNCHANGED <<notification_mode, all_reviews, df, csv, raised, weekly_cat, alerts,
                   result_df, printed>>
    /\ UNCHANGED sweepVars

Next == Collect \/ BuildFrame \/ SpikeDetection \/ Notify \/ NotifyFailure

Spec == Init /\ [][Next]_vars

\* ---------------------------------------------- the classifier, row by row
\* values of delta and prev_delta, in millionths
DeltaSamples ==
    <<0 - 1000000, 0 - 950000, 0 - 600000, 0 - 350000, 0 - 300000, 0 - 299999,
      0 - 100000, 0, 100000, 299999, 300000, 350000, 500000, 600000, 1000000>>

PrevDeltaSamples ==
    <<0 - 600000, 0 - 300000, 0 - 1, 0, 1, 300000, 500000>>

SampleRow(delta, prev_delta) ==
    [category |-> "Home_Appliances", review_date |-> 0, weekly_sentiment |-> 0,
     rolling_avg |-> delta, prev_rolling_avg |-> 0,
     delta |-> delta, prev_delta |-> prev_delta]

\* a weekly table with a category's first row (no delta), second rows (no
\* prev_delta) and later rows
RowGrid ==
    <<NoRow>>
    \o [k \in 1..Len(DeltaSamples) |-> SampleRow(DeltaSamples[k] * Micro, NaN)]
    \o [k \in 1..(Len(DeltaSamples) * Len(PrevDeltaSamples)) |->
          SampleRow(DeltaSamples[((k - 1) \div Len(PrevDeltaSamples)) + 1] * Micro,
                    PrevDeltaSamples[((k - 1) % Len(PrevDeltaSamples)) + 1] * Micro)]

\* one iteration of the detection loop
ClassifyNext ==
    /\ idx < Len(RowGrid)
    /\ idx' = idx + 1
    /\ row' = RowGrid[idx']
    /\ emitted' = ClassifyRow(row')
    /\ seen' = seen \cup {Len(emitted')}
    /\ UNCHANGED pipeVars

SpecRows == Init /\ [][ClassifyNext]_vars

\* ------------------------------------------------------------- properties
Categories == {CATEGORY_KEYWORDS[i] : i \in DOMAIN CATEGORY_KEYWORDS}

\* rapid_sentiment_spike was called and returned
EngineReturned == pc \in {"notify", "done"} /\ raised = "none"

AlertsOfCategory(a, c) == SelectSeq(a, LAMBDA x : x.category = c)

AlertTypes(a) == {a[i].type : i \in DOMAIN a}

\* the frame without its rows at the places S
RECURSIVE Without(_, _)
Without(frame, S) ==
    IF frame = <<>> THEN <<>>
    ELSE LET front == Without(SubSeq(frame, 1, Len(frame) - 1), S)
         IN IF Len(frame) \in S THEN front ELSE Append(front, frame[Len(frame)])

RowsOfCategory(frame, c) == {i \in DOMAIN frame : frame[i].category = c}

\* C1 as stated: whatever records X of a category B are taken out of (or, read
\* the other way, added to) the input, the alerts of every other category A
\* that the engine returns are the same.
C1_ReturnedAlertsIsolated ==
    EngineReturned =>
        \A B \in Categories : \A A \in Categories \ {B} :
            \A X \in SUBSET RowsOfCategory(csv.rows, B) :
                AlertsOfCategory(ReturnedAlerts(Without(csv.rows, X)), A)
                    = AlertsOfCategory(result_df, A)

\* C1 as amended: the alerts the classifier emits for category A, before the
\* recency filter, are the same with and without the records X of category B.
C1_ClassifiedAlertsIsolated ==
    EngineReturned =>
        \A B \in Categories : \A A \in Categories \ {B} :
            \A X \in SUBSET RowsOfCategory(csv.rows, B) :
                AlertsOfCategory(ClassifiedAlerts(Without(csv.rows, X)), A)
                    = AlertsOfCategory(alerts, A)

\* C1 witness: a run in which both categories have records and alerts.
C1_Witness ==
    /\ EngineReturned
    /\ \A c \in Categories : AlertsOfCategory(alerts, c) # <<>>

\* C2: when some alert was classified, the engine returns exactly the alerts
\* dated latest - 7 days or later, latest being the maximum alert date over
\* all categories; none twice, none that was not classified.
C2_RecencyCutoff ==
    (EngineReturned /\ alerts # <<>>) =>
        \E l \in DOMAIN alerts :
            /\ \A j \in DOMAIN alerts : alerts[j].date <= alerts[l].date
            /\ \A j \in DOMAIN alerts :
                   (\E k \in DOMAIN result_df : result_df[k] = alerts[j])
                       <=> alerts[j].date >= alerts[l].date - 7
            /\ \A k \in DOMAIN result_df : \E j \in DOMAIN alerts : alerts[j] = result_df[k]
            /\ \A k, m \in DOMAIN result_df : result_df[k] = result_df[m] => k = m

\* C2 witness: a category has alerts, all older than the cutoff set by the
\* other category's latest alert, and none of them is returned.
C2_Witness ==
    /\ EngineReturned
    /\ \E c \in Categories :
        /\ AlertsOfCategory(alerts, c) # <<>>
        /\ AlertsOfCategory(result_df, c) = <<>>
        /\ result_df # <<>>

\* C3: the alerts the engine returns are sorted by date, then by category.
C3_ReturnedSorted ==
    EngineReturned =>
        \A i \in 1..(Len(result_df) - 1) :
            \/ result_df[i].date < result_df[i + 1].date
            \/ /\ result_df[i].date = result_df[i + 1].date
               /\ CatRank(result_df[i].category) <= CatRank(result_df[i + 1].category)

C5_EmptyIsNotAFailure ==
    (/\ pc = "done"
     /\ csv.written
     /\ \/ DropNa(ParseDates(csv.rows)) = <<>>
        \/ ClassifiedAlerts(csv.rows) = <<>>)
    => /\ raised = "none"
       /\ result_df = <<>>
       /\ Len(sent) = 1
       /\ sent[1].text = "no_spikes"

\* C8: after the engine returned, the caller's frame holds the values it held
\* before the call (the values that were written to the csv file).
C8_InputUnchanged == EngineReturned => df = csv.rows

\* C9: in each category the rows are in ascending week order and, k being the
\* place of a row among the rows of its category, rolling_avg is the mean of
\* the weekly sentiment at k-1 and k (at k alone for k = 1), prev_rolling_avg
\* is rolling_avg at k-1, delta their difference and prev_delta the delta at
\* k-1; each is null where k-1 (for prev_delta: k-2) does not exist.
C9_RollingPerCategory ==
    EngineReturned =>
        \A c \in Categories :
            LET s == AlertsOfCategory(weekly_cat, c)
            IN \A k \in DOMAIN s :
                /\ k > 1 => s[k - 1].review_date < s[k].review_date
                /\ s[k].rolling_avg =
                       IF k = 1 THEN s[k].weekly_sentiment
                       ELSE (s[k - 1].weekly_sentiment + s[k].weekly_sentiment) \div 2
                /\ 2 * s[k].rolling_avg =
                       IF k = 1 THEN 2 * s[k].weekly_sentiment
                       ELSE s[k - 1].weekly_sentiment + s[k].weekly_sentiment
                /\ s[k].prev_rolling_avg = IF k = 1 THEN NaN ELSE s[k - 1].rolling_avg
                /\ s[k].delta = IF k = 1 THEN NaN ELSE s[k].rolling_avg - s[k - 1].rolling_avg
                /\ s[k].prev_delta = IF k <= 2 THEN NaN ELSE s[k - 1].delta

\* C9 witness: a category with three weekly rows, two of them more than a
\* week apart, next to a row of the other category.
C9_Witness ==
    /\ EngineReturned
    /\ \E c \in Categories :
        LET s == AlertsOfCategory(weekly_cat, c)
        IN /\ Len(s) = 3
           /\ s[3].review_date - s[2].review_date > 7
           /\ ~IsNa(s[3].prev_delta)
           /\ Len(weekly_cat) > 3

\* C6: for the row of an iteration, NEGATIVE SPIKE is emitted iff delta <= -0.3
\* and POSITIVE SPIKE iff delta >= 0.3, on the unrounded delta; never both; a
\* row without delta emits nothing.
C6_SpikeThresholds ==
    idx > 0 =>
        IF IsNa(row.delta) THEN emitted = <<>>
        ELSE /\ "NEGATIVE SPIKE" \in AlertTypes(emitted) <=> 10 * row.delta <= 0 - 3 * Unit
             /\ "POSITIVE SPIKE" \in AlertTypes(emitted) <=> 10 * row.delta >= 3 * Unit
             /\ ~ {"NEGATIVE SPIKE", "POSITIVE SPIKE"} \subseteq AlertTypes(emitted)
             /\ \A i \in DOMAIN emitted : emitted[i].change = Round3(row.delta)

\* C6 witness: a row whose delta is exactly -0.3 emitted NEGATIVE SPIKE.
C6_Witness ==
    /\ idx > 0
    /\ row.delta = (0 - 300000) * Micro
    /\ "NEGATIVE SPIKE" \in AlertTypes(emitted)

\* C7: TREND SHIFT is emitted iff prev_delta is not null, delta and prev_delta
\* have strictly opposite signs, and |delta| >= 0.3.
C7_TrendShift ==
    idx > 0 =>
        ("TREND SHIFT" \in AlertTypes(emitted)
            <=> /\ ~IsNa(row.delta)
                /\ ~IsNa(row.prev_delta)
                /\ \/ row.delta < 0 /\ row.prev_delta > 0
                   \/ row.delta > 0 /\ row.prev_delta < 0
                /\ \/ 10 * row.delta >= 3 * Unit
                   \/ 10 * row.delta <= 0 - 3 * Unit)

\* C7 witness: prev_delta = 0.5 and delta = -0.35 emitted TREND SHIFT (and
\* NEGATIVE SPIKE).
C7_Witness ==
    /\ idx > 0
    /\ row.prev_delta = 500000 * Micro
    /\ row.delta = (0 - 350000) * Micro
    /\ AlertTypes(emitted) = {"NEGATIVE SPIKE", "TREND SHIFT"}

\* C10 as stated: over all the rows, each of the counts 0, 1, 2 and 3 is the
\* number of alerts of some row.
C10_CountsUpToThree ==
    idx = Len(RowGrid) => {0, 1, 2, 3} \subseteq seen

\* C10 as amended: a row emits at most two alerts, and each of the counts 0, 1
\* and 2 is the number of alerts of some row.
C10_CountsUpToTwo ==
    /\ Len(emitted) <= 2
    /\ idx = Len(RowGrid) => seen = {0, 1, 2}

\* C10 witness: a row emitted two alerts, after rows that emitted none and one.
C10_Witness ==
    /\ Len(emitted) = 2
    /\ seen = {0, 1, 2}

====
